---- MODULE Spec2Model ----
(***************************************************************************)
(* Model of src/src/ai4eu/orchestrator.py: class Core with its class-level *)
(* containers nodes, rpcs and links, the two methods collect_node_infos    *)
(* and collect_rpc_and_link_infos, and the driver test_orchestrator that   *)
(* parses the two documents, constructs a Core and calls both methods.     *)
(*                                                                         *)
(* Objects are modelled by position: an RPCInfo is its index in Core.rpcs, *)
(* a LinkInfo its index in Core.links (every RPCInfo / LinkInfo the code   *)
(* keeps is appended to exactly one of these lists, once, and never        *)
(* removed).  The incoming / outgoing lists of an RPCInfo hold LinkInfo    *)
(* indices, so that an append through link.input or link.output is seen    *)
(* through Core.rpcs, as it is with Python references.  NodeInfo values    *)
(* are compared field by field, as pydantic models are.                    *)
(*                                                                         *)
(* An exception ends the method that raises it and the run; the model      *)
(* records its kind: "DuplicateContainerName" and "NotInDockerinfo" are    *)
(* the two ValueErrors of collect_node_infos, "KeyError" a failed lookup   *)
(* in self.nodes, "UnexpectedIncomingLinks" the RuntimeError of the        *)
(* interlinking loop.  What a method wrote before it raised stays written. *)
(***************************************************************************)
EXTENDS Integers, Sequences, FiniteSets, TLC

VARIABLES
    nodes,      \* Core.nodes : container_name -> NodeInfo   (class attribute)
    rpcs,       \* Core.rpcs  : list of RPCInfo              (class attribute)
    links,      \* Core.links : list of LinkInfo             (class attribute)
    bpjson,     \* test_orchestrator: the parsed blueprint document
    dijson,     \* test_orchestrator: the parsed dockerinfo document
    pc,         \* where test_orchestrator stands
    error,      \* the exception the current / last run raised, "none" if none
    errkey,     \* the container name the ValueError / KeyError message names
    phase,      \* the part of collect_rpc_and_link_infos the run ended in
    link_partial, \* link_partial as collect_rpc_and_link_infos last built it
    runs,       \* number of test_orchestrator calls started in this process
    origin,     \* history: per link of Core.links, the run that created it and
                \*          the position in that run's link_partial it came from
    before,     \* history: nodes, rpcs, links as they were when the run started
    first,      \* history: what the first run of the process returned
    repeat      \* history: this run is the second one, made on the documents
                \*          of a first run that returned

vars == <<nodes, rpcs, links, bpjson, dijson, pc, error, errkey, phase,
          link_partial, runs, origin, before, first, repeat>>

----------------------------------------------------------------------------
(* Core.collect_node_infos                                                 *)

NoError == [error |-> "none", errkey |-> ""]

\* NodeInfo(container_name=di['container_name'], host=di['ip_address'], port=di['port'])
NodeInfo(di) ==
    [container_name |-> di.container_name, host |-> di.ip_address, port |-> di.port]

\* the membership test made on the host instead of the container name
IsDuplicateByHost(ns, ni) == ni.host \in DOMAIN ns

\* ni.container_name in self.nodes
IsDuplicate(ns, ni) == ni.container_name \in DOMAIN ns

\* self.nodes[ni.container_name] = ni
StoreNode(ns, ni) ==
    [c \in DOMAIN ns \cup {ni.container_name} |->
        IF c = ni.container_name THEN ni ELSE ns[c]]

\* for di in dijson['docker_info_list']: ... from entry i on, ns being self.nodes
RECURSIVE ExtractDockerinfo(_, _, _)
ExtractDockerinfo(ns, dil, i) ==
    IF i > Len(dil) THEN [nodes |-> ns, error |-> "none", errkey |-> ""]
    ELSE LET ni == NodeInfo(dil[i]) IN
         IF IsDuplicate(ns, ni)
         THEN [nodes |-> ns, error |-> "DuplicateContainerName",
               errkey |-> ni.container_name]
         ELSE ExtractDockerinfo(StoreNode(ns, ni), dil, i + 1)

\* n['container_name'] not in self.nodes
IsMissing(ns, n) == n.container_name \notin DOMAIN ns

\* for n in bpjson['nodes']: ... from node i on
RECURSIVE VerifyBlueprint(_, _, _)
VerifyBlueprint(ns, bnodes, i) ==
    IF i > Len(bnodes) THEN NoError
    ELSE IF IsMissing(ns, bnodes[i])
         THEN [error |-> "NotInDockerinfo", errkey |-> bnodes[i].container_name]
         ELSE VerifyBlueprint(ns, bnodes, i + 1)

\* the whole method: the nodes it leaves in self.nodes and what it raises
CollectNodeInfosResult(ns, bp, di) ==
    LET ex == ExtractDockerinfo(ns, di.docker_info_list, 1) IN
    IF ex.error # "none" THEN ex
    ELSE LET ve == VerifyBlueprint(ex.nodes, bp.nodes, 1) IN
         [nodes |-> ex.nodes, error |-> ve.error, errkey |-> ve.errkey]

----------------------------------------------------------------------------
(* Core.collect_rpc_and_link_infos: extraction                             *)

\* RPCInfo(node=..., operation=..., input=..., output=..., incoming=[], outgoing=[])
NewRPC(ns, node, sig) ==
    [node |-> ns[node.container_name],
     operation |-> sig.operation_name,
     input |-> [name |-> sig.input_message_name,
                stream |-> sig.input_message_stream],
     output |-> [name |-> sig.output_message_name,
                 stream |-> sig.output_message_stream],
     incoming |-> <<>>,
     outgoing |-> <<>>]

\* one entry of link_partial; "input" is the producer RPCInfo (its index in
\* self.rpcs once appended)
NewPartial(ns, rpcid, sig, con) ==
    [input |-> rpcid,
     message_name |-> sig.output_message_name,
     output_node |-> ns[con.container_name],
     output_operation |-> con.operation_signature.operation_name]

\* for con in sig_conn['connected_to']: ... from entry i on
RECURSIVE OutgoingPartial(_, _, _, _, _, _)
OutgoingPartial(ns, lp, rpcid, sig, cons, i) ==
    IF i > Len(cons) THEN [link_partial |-> lp, error |-> "none", errkey |-> ""]
    ELSE IF cons[i].container_name \notin DOMAIN ns
         THEN [link_partial |-> lp, error |-> "KeyError",
               errkey |-> cons[i].container_name]
         ELSE OutgoingPartial(ns, Append(lp, NewPartial(ns, rpcid, sig, cons[i])),
                              rpcid, sig, cons, i + 1)

\* for sig_conn in node['operation_signature_list']: ... from entry j on
RECURSIVE ExtractSignatures(_, _, _, _, _)
ExtractSignatures(ns, rs, lp, node, j) ==
    LET scl == node.operation_signature_list IN
    IF j > Len(scl) THEN [rpcs |-> rs, link_partial |-> lp,
                          error |-> "none", errkey |-> ""]
    ELSE IF node.container_name \notin DOMAIN ns
         THEN [rpcs |-> rs, link_partial |-> lp, error |-> "KeyError",
               errkey |-> node.container_name]
         ELSE LET sig == scl[j].operation_signature
                  rpc == NewRPC(ns, node, sig)
                  out == OutgoingPartial(ns, lp, Len(rs) + 1, sig,
                                         scl[j].connected_to, 1)
              IN IF out.error # "none"
                 THEN [rpcs |-> rs, link_partial |-> out.link_partial,
                       error |-> out.error, errkey |-> out.errkey]
                 ELSE ExtractSignatures(ns, Append(rs, rpc), out.link_partial,
                                        node, j + 1)

\* for node in bpjson['nodes']: ... from node i on
RECURSIVE ExtractNodes(_, _, _, _, _)
ExtractNodes(ns, rs, lp, bnodes, i) ==
    IF i > Len(bnodes) THEN [rpcs |-> rs, link_partial |-> lp,
                             error |-> "none", errkey |-> ""]
    ELSE LET r == ExtractSignatures(ns, rs, lp, bnodes[i], 1) IN
         IF r.error # "none" THEN r
         ELSE ExtractNodes(ns, r.rpcs, r.link_partial, bnodes, i + 1)

----------------------------------------------------------------------------
(* Core.collect_rpc_and_link_infos: interlinking                           *)

\* lp['output_node'] == rpc.node and lp['output_operation'] == rpc.operation
IsIncoming(lp, rpc) ==
    lp.output_node = rpc.node /\ lp.output_operation = rpc.operation

\* positions in link_partial of the entries addressed to rpc, in order
RECURSIVE IncomingLinks(_, _, _)
IncomingLinks(lp, rpc, i) ==
    IF i > Len(lp) THEN <<>>
    ELSE (IF IsIncoming(lp[i], rpc) THEN <<i>> ELSE <<>>)
         \o IncomingLinks(lp, rpc, i + 1)

\* the "Empty" case forgotten
ExpectedAlwaysOne(rpc) == 1

\* expected_incoming_links
ExpectedIncomingLinks(rpc) == IF rpc.input.name = "Empty" THEN 0 ELSE 1

\* LinkInfo(input=incoming['input'], output=rpc, message_name=incoming['message_name'])
NewLink(incoming, rpcid) ==
    [input |-> incoming.input, output |-> rpcid,
     message_name |-> incoming.message_name]

\* both appends made on the consumer
RegisterLinkOnConsumer(rs, link, linkid) ==
    LET rs1 == [rs EXCEPT ![link.output].outgoing = Append(@, linkid)]
    IN [rs1 EXCEPT ![link.output].incoming = Append(@, linkid)]

\* link.input.outgoing.append(link); link.output.incoming.append(link)
RegisterLink(rs, link, linkid) ==
    LET rs1 == [rs EXCEPT ![link.input].outgoing = Append(@, linkid)]
    IN [rs1 EXCEPT ![link.output].incoming = Append(@, linkid)]

\* for rpc in self.rpcs: ... from position i on; og lists, per link of
\* self.links, the run and the link_partial position it was built from
RECURSIVE Interlink(_, _, _, _, _, _)
Interlink(rs, ls, og, lp, run, i) ==
    IF i > Len(rs) THEN [rpcs |-> rs, links |-> ls, origin |-> og,
                         error |-> "none"]
    ELSE LET inc == IncomingLinks(lp, rs[i], 1)
             expected == ExpectedIncomingLinks(rs[i])
         IN IF Len(inc) # expected
            THEN [rpcs |-> rs, links |-> ls, origin |-> og,
                  error |-> "UnexpectedIncomingLinks"]
            ELSE IF expected > 0
                 THEN LET link == NewLink(lp[inc[1]], i)
                      IN Interlink(RegisterLink(rs, link, Len(ls) + 1),
                                   Append(ls, link),
                                   Append(og, [run |-> run, decl |-> inc[1]]),
                                   lp, run, i + 1)
                 ELSE Interlink(rs, ls, og, lp, run, i + 1)

\* the whole method: what it leaves in self.rpcs / self.links and what it raises
CollectRpcAndLinkInfosResult(ns, rs, ls, og, bp, run) ==
    LET ex == ExtractNodes(ns, rs, <<>>, bp.nodes, 1) IN
    IF ex.error # "none"
    THEN [rpcs |-> ex.rpcs, links |-> ls, origin |-> og,
          link_partial |-> ex.link_partial, phase |-> "extract",
          error |-> ex.error, errkey |-> ex.errkey]
    ELSE LET il == Interlink(ex.rpcs, ls, og, ex.link_partial, run, 1) IN
         [rpcs |-> il.rpcs, links |-> il.links, origin |-> il.origin,
          link_partial |-> ex.link_partial, phase |-> "interlink",
          error |-> il.error, errkey |-> ""]

----------------------------------------------------------------------------
(* The documents.  A blueprint is written as the list of its operation     *)
(* declarations, each with the container it is declared under; consecutive *)
(* declarations of one container form one entry of bpjson['nodes'].        *)

MaxRuns == 2        \* test_orchestrator calls per process (SpecRepeat)
MaxDecl == 4        \* operation signatures plus connected_to entries per blueprint
MaxInv == 2         \* entries per dockerinfo document

Containers == {"A", "B"}

SeqUpTo(S, n) == UNION {[1..k -> S] : k \in 0..n}

\* the dockerinfo entries: A at either of two addresses, B at one
DockerInfo(c, ip, port) == [container_name |-> c, ip_address |-> ip, port |-> port]

DockerInfos ==
    {DockerInfo("A", "10.0.0.1", 9000), DockerInfo("A", "10.0.0.3", 9002),
     DockerInfo("B", "10.0.0.2", 9001)}

Inventories == {[docker_info_list |-> l] : l \in SeqUpTo(DockerInfos, MaxInv)}

\* the operation signatures the containers offer: a source and a transformer
Source ==
    [operation_name |-> "f",
     input_message_name |-> "Empty", input_message_stream |-> FALSE,
     output_message_name |-> "Data", output_message_stream |-> FALSE]

Transform ==
    [operation_name |-> "g",
     input_message_name |-> "Data", input_message_stream |-> FALSE,
     output_message_name |-> "Result", output_message_stream |-> TRUE]

Signatures == {Source, Transform}

To(c, op) == [container_name |-> c, operation_signature |-> [operation_name |-> op]]

Targets == {To(c, sig.operation_name) : c \in Containers, sig \in Signatures}

Decl(c, sig, cons) ==
    [container_name |-> c, operation_signature |-> sig, connected_to |-> cons]

Decls(n) ==
    {Decl(c, sig, cons) :
        c \in Containers, sig \in Signatures, cons \in SeqUpTo(Targets, n)}

\* the declaration lists of total size (signatures plus connections) at most n
RECURSIVE DeclLists(_)
DeclLists(n) ==
    IF n = 0 THEN {<<>>}
    ELSE {<<>>} \cup
         UNION {{<<d>> \o rest : rest \in DeclLists(n - 1 - Len(d.connected_to))} :
                    d \in Decls(n - 1)}

RECURSIVE GroupNodes(_, _, _)
GroupNodes(ds, i, acc) ==
    IF i > Len(ds) THEN acc
    ELSE LET sc == [operation_signature |-> ds[i].operation_signature,
                    connected_to |-> ds[i].connected_to]
             n == Len(acc)
         IN IF n > 0 /\ acc[n].container_name = ds[i].container_name
            THEN GroupNodes(ds, i + 1,
                     [acc EXCEPT ![n].operation_signature_list = Append(@, sc)])
            ELSE GroupNodes(ds, i + 1,
                     Append(acc, [container_name |-> ds[i].container_name,
                                  operation_signature_list |-> <<sc>>]))

Blueprint(ds) == [nodes |-> GroupNodes(ds, 1, <<>>)]

Blueprints == {Blueprint(ds) : ds \in DeclLists(MaxDecl)}

\* the documents of the repeated runs: scenarios A, B and C of the test
\* plan, an operation fed by itself, two operations feeding each other, a
\* connection to an operation nobody declares, and one operation declared twice
ScenarioA == Blueprint(<<Decl("A", Source, <<>>)>>)
ScenarioB == Blueprint(<<Decl("A", Source, <<To("B", "g")>>),
                         Decl("B", Transform, <<>>)>>)
ScenarioC == Blueprint(<<Decl("A", Source, <<To("B", "f")>>),
                         Decl("B", Source, <<>>)>>)
ScenarioLoop == Blueprint(<<Decl("A", Transform, <<To("A", "g")>>)>>)
ScenarioCycle == Blueprint(<<Decl("A", Transform, <<To("B", "g")>>),
                             Decl("B", Transform, <<To("A", "g")>>)>>)
ScenarioStray == Blueprint(<<Decl("A", Source, <<To("B", "g")>>)>>)
ScenarioTwin == Blueprint(<<Decl("A", Transform, <<To("A", "g")>>),
                            Decl("A", Transform, <<>>)>>)

Scenarios == {ScenarioA, ScenarioB, ScenarioC, ScenarioLoop, ScenarioCycle,
              ScenarioStray, ScenarioTwin}

----------------------------------------------------------------------------
(* test_orchestrator and the process around it                             *)

NoDocument == [nodes |-> <<>>]
NoInventory == [docker_info_list |-> <<>>]
Snapshot == [nodes |-> nodes, rpcs |-> rpcs, links |-> links]
NoResult == [returned |-> FALSE, nodes |-> <<>>, rpcs |-> <<>>, links |-> <<>>]

Init ==
    /\ nodes = <<>>
    /\ rpcs = <<>>
    /\ links = <<>>
    /\ bpjson = NoDocument
    /\ dijson = NoInventory
    /\ pc = "idle"
    /\ error = "none"
    /\ errkey = ""
    /\ phase = "none"
    /\ link_partial = <<>>
    /\ runs = 0
    /\ origin = <<>>
    /\ before = [nodes |-> <<>>, rpcs |-> <<>>, links |-> <<>>]
    /\ first = NoResult
    /\ repeat = FALSE

\* bpjson = json.loads(blueprint); dijson = json.loads(dockerinfo); oc = Core()
TestOrchestrator(bp, di) ==
    /\ pc \in {"idle", "returned", "raised"}
    /\ bpjson' = bp
    /\ dijson' = di
    /\ pc' = "collect_node_infos"
    /\ error' = "none"
    /\ errkey' = ""
    /\ phase' = "none"
    /\ link_partial' = <<>>
    /\ runs' = runs + 1
    /\ before' = Snapshot
    /\ repeat' = (runs = 1 /\ first.returned /\ bp = bpjson /\ di = dijson)
    /\ UNCHANGED <<nodes, rpcs, links, origin, first>>

\* nodes = oc.collect_node_infos(bpjson, dijson)
CollectNodeInfos ==
    /\ pc = "collect_node_infos"
    /\ LET r == CollectNodeInfosResult(nodes, bpjson, dijson) IN
       /\ nodes' = r.nodes
       /\ error' = r.error
       /\ errkey' = r.errkey
       /\ pc' = IF r.error = "none" THEN "collect_rpc_and_link_infos" ELSE "raised"
       /\ first' = IF runs = 1 /\ r.error # "none" THEN NoResult ELSE first
    /\ UNCHANGED <<rpcs, links, bpjson, dijson, phase, link_partial, runs,
                   origin, before, repeat>>

\* rpcs, links = oc.collect_rpc_and_link_infos(bpjson), and the logging
CollectRpcAndLinkInfos ==
    /\ pc = "collect_rpc_and_link_infos"
    /\ LET r == CollectRpcAndLinkInfosResult(nodes, rpcs, links, origin,
                                             bpjson, runs) IN
       /\ rpcs' = r.rpcs
       /\ links' = r.links
       /\ origin' = r.origin
       /\ link_partial' = r.link_partial
       /\ phase' = r.phase
       /\ error' = r.error
       /\ errkey' = r.errkey
       /\ pc' = IF r.error = "none" THEN "returned" ELSE "raised"
       /\ first' = IF runs = 1 /\ r.error = "none"
                   THEN [returned |-> TRUE, nodes |-> nodes,
                         rpcs |-> r.rpcs, links |-> r.links]
                   ELSE first
    /\ UNCHANGED <<nodes, bpjson, dijson, runs, before, repeat>>

\* one process, one call of test_orchestrator, as main() makes it
Next ==
    \/ /\ runs = 0
       /\ \E bp \in Blueprints, di \in Inventories : TestOrchestrator(bp, di)
    \/ CollectNodeInfos
    \/ CollectRpcAndLinkInfos

Spec == Init /\ [][Next]_vars

\* one process calling test_orchestrator up to MaxRuns times
NextRepeat ==
    \/ /\ runs < MaxRuns
       /\ pc \in {"idle", "returned", "raised"}
       /\ \E bp \in Scenarios, di \in Inventories : TestOrchestrator(bp, di)
    \/ CollectNodeInfos
    \/ CollectRpcAndLinkInfos

SpecRepeat == Init /\ [][NextRepeat]_vars

----------------------------------------------------------------------------
(* What the properties below read off a state.                             *)

Range(s) == {s[i] : i \in DOMAIN s}
Count(x, s) == Cardinality({i \in DOMAIN s : s[i] = x})

InventoryNames(di) == {e.container_name : e \in Range(di.docker_info_list)}
HasDuplicateIdentity(di) ==
    \E i, j \in DOMAIN di.docker_info_list :
        i < j /\ di.docker_info_list[i].container_name
                 = di.docker_info_list[j].container_name

\* the operation declarations of a blueprint, in declaration order
RECURSIVE Declarations(_, _)
Declarations(bnodes, i) ==
    IF i > Len(bnodes) THEN <<>>
    ELSE LET scl == bnodes[i].operation_signature_list IN
         [j \in 1..Len(scl) |->
             Decl(bnodes[i].container_name, scl[j].operation_signature,
                  scl[j].connected_to)]
         \o Declarations(bnodes, i + 1)

\* the connected_to entries of a list of declarations, in declaration order
RECURSIVE Connections(_, _)
Connections(ds, i) ==
    IF i > Len(ds) THEN <<>> ELSE ds[i].connected_to \o Connections(ds, i + 1)

\* number of connected_to entries of the blueprint addressed to declaration d
Addressed(bp, d) ==
    LET cons == Connections(Declarations(bp.nodes, 1), 1) IN
    Cardinality({k \in DOMAIN cons :
        /\ cons[k].container_name = d.container_name
        /\ cons[k].operation_signature.operation_name
           = d.operation_signature.operation_name})

Expected(inputname) == IF inputname = "Empty" THEN 0 ELSE 1

\* collect_node_infos of the current run has returned its mapping
NodesReturned == pc \in {"collect_rpc_and_link_infos", "returned"}
                 \/ (pc = "raised" /\ phase # "none")
\* collect_node_infos of the current run has raised
NodesRaised == pc = "raised" /\ phase = "none"
\* collect_rpc_and_link_infos of the current run has been called and has ended
LinksEnded == pc \in {"returned", "raised"} /\ phase # "none"

----------------------------------------------------------------------------
(* The properties.                                                         *)

\* C1 (Cardinality): whenever collect_rpc_and_link_infos returns, every
\* operation with input "Empty" has exactly 0 incoming links and every other
\* operation exactly 1; and whenever the number of connected_to entries
\* addressed to some declared operation differs from that count, the call
\* fails with the link-cardinality error instead of returning.
C1_Cardinality ==
    /\ pc = "returned" =>
          \A i \in DOMAIN rpcs :
              Len(rpcs[i].incoming) = Expected(rpcs[i].input.name)
    /\ (LinksEnded /\ \E d \in Range(Declarations(bpjson.nodes, 1)) :
            Addressed(bpjson, d)
            # Expected(d.operation_signature.input_message_name))
       => (pc = "raised" /\ error = "UnexpectedIncomingLinks")

\* C2 (Link consistency): after a successful resolution, every link of the
\* returned links carries the output message name of its producer, occurs
\* exactly once in its producer's outgoing list, exactly once in its
\* consumer's incoming list, and in no other operation's lists.
C2_LinkConsistency ==
    pc = "returned" =>
        \A k \in DOMAIN links :
            /\ links[k].message_name = rpcs[links[k].input].output.name
            /\ Count(k, rpcs[links[k].input].outgoing) = 1
            /\ Count(k, rpcs[links[k].output].incoming) = 1
            /\ \A i \in DOMAIN rpcs :
                  /\ i # links[k].input => k \notin Range(rpcs[i].outgoing)
                  /\ i # links[k].output => k \notin Range(rpcs[i].incoming)

\* a second run has returned with links of both runs, one of them joining
\* an operation of the second run to an operation of the first
C2_Witness ==
    /\ pc = "returned"
    /\ runs = 2
    /\ \E k \in DOMAIN links :
          /\ origin[k].run = 2
          /\ links[k].output <= Len(before.rpcs)
          /\ links[k].input > Len(before.rpcs)
    /\ \E k \in DOMAIN links : origin[k].run = 1

\* C3 (Unmatched declarations are fatal): after every successful resolution
\* each connected_to entry of the blueprint is addressed to an extracted
\* operation and is represented by a link in the outgoing list of the
\* operation that declares it.
C3_UnmatchedFatal ==
    pc = "returned" =>
        \A d \in DOMAIN link_partial :
            /\ \E i \in DOMAIN rpcs : IsIncoming(link_partial[d], rpcs[i])
            /\ \E k \in Range(rpcs[link_partial[d].input].outgoing) :
                  origin[k] = [run |-> runs, decl |-> d]

\* C4 (Atomic failure): when a run fails, nodes, operations and links (with
\* the operations' incoming / outgoing lists) are as they were before the
\* run started.
C4_AtomicFailure ==
    pc = "raised" =>
        /\ nodes = before.nodes
        /\ rpcs = before.rpcs
        /\ links = before.links

\* C5 (Idempotence): a second run on the documents of a first run that
\* returned, each on a freshly constructed Core, returns too, with the same
\* nodes, the same operations and the same links as the first.
C5_Idempotence ==
    (repeat /\ pc \in {"returned", "raised"}) =>
        /\ pc = "returned"
        /\ nodes = first.nodes
        /\ rpcs = first.rpcs
        /\ links = first.links

\* C6 (Completeness): in every run, if the blueprint declares a node whose
\* container identity is absent from that run's dockerinfo document (a
\* document without duplicate identities, which are rejected first), then
\* collect_node_infos raises the missing-deployment error naming such an
\* identity, and returns no mapping.
C6_Completeness ==
    ((NodesReturned \/ NodesRaised)
        /\ ~HasDuplicateIdentity(dijson)
        /\ \E n \in Range(bpjson.nodes) :
              n.container_name \notin InventoryNames(dijson))
    => /\ NodesRaised
       /\ error = "NotInDockerinfo"
       /\ errkey \notin InventoryNames(dijson)
       /\ \E n \in Range(bpjson.nodes) : n.container_name = errkey

\* C7 (Uniqueness): for every dockerinfo document in which two entries share
\* a container identity, collect_node_infos raises the duplicate-identity
\* error; and whenever it returns a mapping, each identity of the document
\* maps to the one node carrying that entry's host and port.
C7_Uniqueness ==
    /\ ((NodesReturned \/ NodesRaised) /\ HasDuplicateIdentity(dijson))
       => (NodesRaised /\ error = "DuplicateContainerName")
    /\ NodesReturned =>
          \A e \in Range(dijson.docker_info_list) :
              /\ e.container_name \in DOMAIN nodes
              /\ nodes[e.container_name]
                 = [container_name |-> e.container_name,
                    host |-> e.ip_address, port |-> e.port]

\* a second run, whose document has two entries of one identity that the
\* first run did not register, has raised the duplicate-identity error
C7_Witness ==
    /\ runs = 2
    /\ NodesRaised
    /\ error = "DuplicateContainerName"
    /\ HasDuplicateIdentity(dijson)
    /\ errkey \notin DOMAIN before.nodes
    /\ before.nodes # <<>>

\* C8 (One link per connection): in every successful resolution no two
\* links stem from the same connected_to entry.
C8_OneLinkPerConnection ==
    pc = "returned" =>
        \A k1, k2 \in DOMAIN links : origin[k1] = origin[k2] => k1 = k2

\* C9 (Extraction cannot fail): once registry construction has passed,
\* collect_rpc_and_link_infos gets through its extraction loop; it fails in
\* the cardinality check or not at all.
C9_ExtractionCompletes ==
    LinksEnded => phase = "interlink"

\* C10 (Link count and order): after a successful single run on fresh
\* state the links are exactly one per operation whose input is not "Empty",
\* that operation being the link's consumer, in the declaration order of
\* these consumers.
RECURSIVE Consumers(_, _)
Consumers(rs, i) ==
    IF i > Len(rs) THEN <<>>
    ELSE (IF rs[i].input.name # "Empty" THEN <<i>> ELSE <<>>)
         \o Consumers(rs, i + 1)

C10_LinkCountAndOrder ==
    (pc = "returned" /\ runs = 1) =>
        LET cs == Consumers(rpcs, 1) IN
        /\ Len(links) = Len(cs)
        /\ \A k \in DOMAIN links : links[k].output = cs[k]

\* a run has returned two links whose order is the reverse of the order of
\* the connected_to entries they were built from
C10_Witness ==
    /\ pc = "returned"
    /\ runs = 1
    /\ Len(links) = 2
    /\ origin[1].decl > origin[2].decl

====
